---- MODULE Spec2Model ----
(***************************************************************************)
(* Model of src/crawler.py: the proxy repository, the HTTP downloader,     *)
(* the Suning parser, the SuningCrawler constructor and the worker loop    *)
(* with its shared request_queue and the HBase table it writes.            *)
(*                                                                         *)
(* Strings are tuples of one-character strings, so that concatenation and  *)
(* strip() are computed.  An HTML document is a tuple of nodes; node "ws"  *)
(* is a run of whitespace, node "junk" is markup on which the HTML library *)
(* raises, every other node is a .product-item element with an optional    *)
(* .title and an optional .price child.                                    *)
(*                                                                         *)
(* Spec is the crawl pipeline: the constructor, a caller that puts targets *)
(* into request_queue and joins it, and the threads that run _worker.      *)
(* The constructor starts no thread (self._worker does not resolve, see    *)
(* SuningCrawlerAttrs); the threads of the model are started by a caller   *)
(* that runs the module-level function _worker on the crawler object.      *)
(* FairSpec adds the fairness of thread scheduling.  ParseSpec,            *)
(* DownloadSpec and ProxySpec call parse, download and get_random_proxy on *)
(* inputs drawn from bounded sets.                                         *)
(***************************************************************************)
EXTENDS Integers, Sequences, FiniteSets, TLC

\* ---------------------------------------------------------------- bounds
\* Number of targets the caller enqueues in one behaviour.
MaxTargets == 3
\* Number of threads that run _worker at the same time.
MaxWorkers == 2
\* Capacity of request_queue: Queue(maxsize=1000) at crawler.py:135, scaled.
maxsize == 2
\* Longest document drawn for parse().
MaxDocLen == 3
\* Longest response text drawn for download().
MaxTextLen == 2
\* Longest proxy list drawn for get_random_proxy(), and the calls made.
MaxProxies == 3
MaxCalls == 3

\* ------------------------------------------------------ program constants
num_threads == 5

\* Python's None where a text is expected, where a queue entry is expected
\* and where a parser outcome is expected
None == <<"None">>
NoEntry == [id |-> 0, url |-> "None"]
NoData == [status |-> "none"]

\* Attributes found on a SuningCrawler instance when _start_workers runs:
\* the methods of the class body (lines 131-143) and the fields set by
\* __init__ (lines 133-135).  _worker is defined at module level (line 145,
\* column 0), so it is not among them.
SuningCrawlerAttrs ==
    {"__init__", "_start_workers", "downloader", "parser", "request_queue"}

\* ------------------------------------------------------------- text
WS == " "

RECURSIVE LStrip(_)
LStrip(s) == IF s # <<>> /\ Head(s) = WS THEN LStrip(Tail(s)) ELSE s

RECURSIVE RStrip(_)
RStrip(s) ==
    IF s # <<>> /\ s[Len(s)] = WS THEN RStrip(SubSeq(s, 1, Len(s) - 1)) ELSE s

\* str.strip()
Strip(s) == RStrip(LStrip(s))

\* hashlib.md5(x.encode()).hexdigest(), taken as injective on its input
Md5(s) == <<"md5">> \o s

\* ------------------------------------------------------------- documents
TitleTexts == { <<"A">>, <<"A", "1">>, <<WS, "A">> }
PriceTexts == { <<"2">>, <<"1", "2">>, <<"2", WS>> }

Ws == [kind |-> "ws"]
Junk == [kind |-> "junk"]
Item(t, p) == [kind |-> "item", title |-> t, price |-> p]
Items == { Item(t, p) : t \in TitleTexts \cup {None}, p \in PriceTexts \cup {None} }

IsItem(n) == n.kind = "item"
Nodes == Items \cup {Ws, Junk}
DocsUpTo(n) == UNION { [1..k -> Nodes] : k \in 0..n }

\* not html.strip()
IsBlank(html) == \A i \in 1..Len(html) : html[i] = Ws

RECURSIVE SelectProductsOr(_)
\* SelectProducts keeping a node that has a title or a price
SelectProductsOr(html) ==
    IF html = <<>> THEN <<>>
    ELSE LET n == Head(html)
             rest == SelectProductsOr(Tail(html))
         IN IF IsItem(n) /\ (n.title # None \/ n.price # None)
            THEN <<[title |-> Strip(n.title), price |-> Strip(n.price)]>> \o rest
            ELSE rest

RECURSIVE SelectProducts(_)
\* lines 110-121: the loop over soup.select('.product-item')
SelectProducts(html) ==
    IF html = <<>> THEN <<>>
    ELSE LET n == Head(html)
             rest == SelectProducts(Tail(html))
         IN IF IsItem(n) /\ n.title # None /\ n.price # None
            THEN <<[title |-> Strip(n.title), price |-> Strip(n.price)]>> \o rest
            ELSE rest

\* parse without its try: what the HTML library raises leaves parse
parseNoCatch(html) ==
    IF IsBlank(html) THEN [status |-> "error", reason |-> "empty HTML content"]
    ELSE IF \E i \in 1..Len(html) : html[i] = Junk
         THEN [status |-> "raised"]
         ELSE LET product_list == SelectProducts(html)
              IN IF product_list = <<>> THEN [status |-> "empty"]
                 ELSE [status |-> "success", data |-> product_list]

\* SuningParserImpl.parse
parse(html) ==
    IF IsBlank(html) THEN [status |-> "error", reason |-> "empty HTML content"]
    ELSE IF \E i \in 1..Len(html) : html[i] = Junk
         THEN [status |-> "error", reason |-> "exception"]
         ELSE LET product_list == SelectProducts(html)
              IN IF product_list = <<>> THEN [status |-> "empty"]
                 ELSE [status |-> "success", data |-> product_list]

\* ------------------------------------------------------------- downloader
Statuses == {200, 204, 300, 404, 500}
Failures == { [exc |-> e] : e \in {"Timeout", "ConnectionError"} }
IsFailure(r) == "exc" \in DOMAIN r

\* response.raise_for_status(): HTTPError for 4xx and 5xx
RaisesForStatus(status) == status >= 400 /\ status < 600

\* HttpGetDownloadImpl.download applied to what session.get produced:
\* a RequestException name or a response [status, text]
download(r) ==
    IF IsFailure(r) THEN <<>>
    ELSE IF RaisesForStatus(r.status) THEN <<>>
         ELSE r.text

\* ------------------------------------------------------------- pipeline
\* Pages the network serves to the workers.
Page2 == << Item(<<"A", "1">>, <<"2">>), Item(<<"A">>, None), Item(<<WS, "A">>, <<"1", "2">>) >>
Page3 == << Item(<<"A">>, <<"2", WS>>) >>
Pages == { <<>>, <<Ws>>, Page2, <<Item(None, <<"2">>)>> }
\* A site whose pages all list products.
ProductPages == { Page2, Page3 }
\* What session.get can produce when the site holds the pages S.
NetResponses(S) ==
    Failures \cup { [status |-> 200, text |-> p] : p \in S }
             \cup { [status |-> 404, text |-> Page2] }

URLs == {"u1", "u2"}
\* The caller's seed list: the URLs in turn, so that the list holds different
\* URLs and, from the third target on, the same URL twice.
Seed(i) == IF i % 2 = 1 THEN "u1" ELSE "u2"
W == 1..num_threads
Ids == 1..MaxTargets

VARIABLES
    site,        \* the pages of the site that is crawled
    ctor,        \* progress of SuningCrawler.__init__
    started,     \* threads started by _start_workers
    queue,       \* request_queue: the pending entries
    unfinished,  \* request_queue.unfinished_tasks
    prod,        \* the caller: "idle", "putting", "joining", "joined"
    pending,     \* the entry of the put in progress
    nput,        \* puts completed
    pc,          \* per thread: position in _worker
    url,         \* per thread: the entry it dequeued
    html,        \* per thread: the downloaded document
    data,        \* per thread: the parser's outcome
    idx,         \* per thread: position in data['data']
    tbl,         \* the HBase table: row key -> columns
    gets,        \* per entry: times dequeued
    dls,         \* per entry: times downloaded
    dones,       \* per entry: times task_done was called for it
    putLog,      \* the successful table.put calls
    caught,      \* the entries whose processing reached line 169
    p_html,      \* parse: the argument
    p_out,       \* parse: the value returned
    d_pc,        \* download: "idle", "called", "returned"
    d_resp,      \* download: what session.get produced
    d_out,       \* download: the value returned
    d_nget,      \* download: session.get calls of the invocation
    proxies,     \* ProxyRepository.proxies
    chosen,      \* get_random_proxy: the value returned
    ncalls       \* get_random_proxy: calls made

pipeVars == <<site, ctor, started, queue, unfinished, prod, pending, nput, pc, url,
              html, data, idx, tbl, gets, dls, dones, putLog, caught>>
parseVars == <<p_html, p_out>>
dlVars == <<d_pc, d_resp, d_out, d_nget>>
proxyVars == <<proxies, chosen, ncalls>>
fnVars == <<parseVars, dlVars, proxyVars>>
vars == <<pipeVars, fnVars>>

ctorVars == <<site, ctor, started>>
prodVars == <<prod, pending, nput>>
histVars == <<gets, dls, dones, putLog, caught>>

\* the class attribute of lines 58-62
ConfiguredProxies ==
    << "http://58.60.255.104:8118", "http://219.135.164.245:3128",
       "http://27.44.171.27:9999" >>
NoProxy == "None"
NoResponse == [exc |-> "none"]

ParseIdle == p_html = <<>> /\ p_out = NoData
DownloadIdle ==
    d_pc = "idle" /\ d_resp = NoResponse /\ d_out = <<>> /\ d_nget = 0
ProxyIdle == proxies = ConfiguredProxies /\ chosen = NoProxy /\ ncalls = 0

\* the state of the pipeline before SuningCrawler is constructed
PipeStart ==
    /\ ctor = "new"
    /\ started = 0
    /\ queue = <<>>
    /\ unfinished = 0
    /\ prod = "idle"
    /\ pending = NoEntry
    /\ nput = 0
    /\ pc = [w \in W |-> "off"]
    /\ url = [w \in W |-> NoEntry]
    /\ html = [w \in W |-> <<>>]
    /\ data = [w \in W |-> NoData]
    /\ idx = [w \in W |-> 0]
    /\ tbl = <<>>
    /\ gets = [i \in Ids |-> 0]
    /\ dls = [i \in Ids |-> 0]
    /\ dones = [i \in Ids |-> 0]
    /\ putLog = {}
    /\ caught = {}

PipeInit == site = Pages /\ PipeStart

Init == PipeInit /\ ParseIdle /\ DownloadIdle /\ ProxyIdle

\* The pipeline on a site of product pages only.
StoreInit ==
    /\ site = ProductPages /\ PipeStart
    /\ ParseIdle /\ DownloadIdle /\ ProxyIdle

\* ------------------------------------------------------------ constructor
\* SuningCrawler.__init__, lines 133-136: the fields, the queue, then the
\* call of _start_workers
Construct ==
    /\ ctor = "new"
    /\ ctor' = "start_workers"
    /\ UNCHANGED <<fnVars, site, started, queue, unfinished, prodVars, pc,
                   url, html, data, idx, tbl, histVars>>

\* One iteration of the loop of _start_workers (line 142-143).  Evaluating
\* self._worker raises AttributeError when the instance has no such
\* attribute; the exception leaves _start_workers and __init__.
StartWorkersStep ==
    /\ ctor = "start_workers"
    /\ IF "_worker" \in SuningCrawlerAttrs
       THEN /\ started' = started + 1
            /\ pc' = [pc EXCEPT ![started + 1] = "get"]
            /\ ctor' = IF started + 1 = num_threads THEN "returned" ELSE ctor
       ELSE /\ ctor' = "raised"
            /\ UNCHANGED <<started, pc>>
    /\ UNCHANGED <<fnVars, site, queue, unfinished, prodVars, url, html, data,
                   idx, tbl, histVars>>

Running == { w \in W : pc[w] \notin {"off", "dead"} }

\* A caller runs the module-level function _worker(self) in a thread of
\* its own, on the object whose request_queue line 135 created.
StartWorker(w) ==
    /\ ctor \in {"raised", "returned"}
    /\ pc[w] = "off"
    /\ \A v \in W : v < w => pc[v] # "off"
    /\ Cardinality(Running) < MaxWorkers
    /\ pc' = [pc EXCEPT ![w] = "get"]
    /\ UNCHANGED <<fnVars, ctorVars, queue, unfinished, prodVars, url, html, data,
                   idx, tbl, histVars>>

\* ------------------------------------------------------------- the caller
\* request_queue.put(u) is called: the entry is the nput+1-th of the run
PutStart(u) ==
    /\ ctor \in {"raised", "returned"}
    /\ prod \in {"idle", "joined"}
    /\ nput < MaxTargets
    /\ pending' = [id |-> nput + 1, url |-> u]
    /\ prod' = "putting"
    /\ UNCHANGED <<fnVars, ctorVars, queue, unfinished, nput, pc, url, html, data,
                   idx, tbl, histVars>>

\* PutReturn of a queue without a capacity
PutReturnUnbounded ==
    /\ prod = "putting"
    /\ queue' = Append(queue, pending)
    /\ unfinished' = unfinished + 1
    /\ nput' = nput + 1
    /\ pending' = NoEntry
    /\ prod' = "idle"
    /\ UNCHANGED <<fnVars, ctorVars, pc, url, html, data, idx, tbl, histVars>>

\* Queue.put returns: it waits while qsize() >= maxsize, then appends and
\* counts the entry as unfinished
PutReturn ==
    /\ prod = "putting"
    /\ Len(queue) < maxsize
    /\ queue' = Append(queue, pending)
    /\ unfinished' = unfinished + 1
    /\ nput' = nput + 1
    /\ pending' = NoEntry
    /\ prod' = "idle"
    /\ UNCHANGED <<fnVars, ctorVars, pc, url, html, data, idx, tbl, histVars>>

\* request_queue.join() is called
JoinStart ==
    /\ ctor \in {"raised", "returned"}
    /\ prod = "idle"
    /\ prod' = "joining"
    /\ UNCHANGED <<fnVars, ctorVars, queue, unfinished, pending, nput, pc, url, html,
                   data, idx, tbl, histVars>>

\* Queue.join returns: it waits while unfinished_tasks is not zero
JoinReturn ==
    /\ prod = "joining"
    /\ unfinished = 0
    /\ prod' = "joined"
    /\ UNCHANGED <<fnVars, ctorVars, queue, unfinished, pending, nput, pc, url, html,
                   data, idx, tbl, histVars>>

\* ------------------------------------------------------------- the worker
\* WorkerGet taking the newest entry of the queue
WorkerGetLast(w) ==
    /\ pc[w] = "get"
    /\ queue # <<>>
    /\ url' = [url EXCEPT ![w] = queue[Len(queue)]]
    /\ queue' = SubSeq(queue, 1, Len(queue) - 1)
    /\ gets' = [gets EXCEPT ![queue[Len(queue)].id] = @ + 1]
    /\ pc' = [pc EXCEPT ![w] = "download"]
    /\ UNCHANGED <<fnVars, ctorVars, unfinished, prodVars, html, data, idx, tbl,
                   dls, dones, putLog, caught>>

\* WorkerGet under a lock that is held while a target is processed
WorkerGetSerial(w) ==
    /\ pc[w] = "get"
    /\ \A v \in W : pc[v] \in {"off", "get", "dead"}
    /\ queue # <<>>
    /\ url' = [url EXCEPT ![w] = Head(queue)]
    /\ queue' = Tail(queue)
    /\ gets' = [gets EXCEPT ![Head(queue).id] = @ + 1]
    /\ pc' = [pc EXCEPT ![w] = "download"]
    /\ UNCHANGED <<fnVars, ctorVars, unfinished, prodVars, html, data, idx, tbl,
                   dls, dones, putLog, caught>>

\* WorkerGet reading the head of the queue without removing it
WorkerGetPeek(w) ==
    /\ pc[w] = "get"
    /\ queue # <<>>
    /\ url' = [url EXCEPT ![w] = Head(queue)]
    /\ queue' = queue
    /\ gets' = [gets EXCEPT ![Head(queue).id] = @ + 1]
    /\ pc' = [pc EXCEPT ![w] = "download"]
    /\ UNCHANGED <<fnVars, ctorVars, unfinished, prodVars, html, data, idx, tbl,
                   dls, dones, putLog, caught>>

\* line 148: url = self.request_queue.get()
WorkerGet(w) ==
    /\ pc[w] = "get"
    /\ queue # <<>>
    /\ url' = [url EXCEPT ![w] = Head(queue)]
    /\ queue' = Tail(queue)
    /\ gets' = [gets EXCEPT ![Head(queue).id] = @ + 1]
    /\ pc' = [pc EXCEPT ![w] = "download"]
    /\ UNCHANGED <<fnVars, ctorVars, unfinished, prodVars, html, data, idx, tbl,
                   dls, dones, putLog, caught>>

\* WorkerDownload without the test of line 152: every document is parsed
WorkerDownloadNoTest(w) ==
    /\ pc[w] = "download"
    /\ dls' = [dls EXCEPT ![url[w].id] = @ + 1]
    /\ \/ \E r \in NetResponses(site) :
            /\ html' = [html EXCEPT ![w] = download(r)]
            /\ pc' = [pc EXCEPT ![w] = "parse"]
       \/ /\ pc' = [pc EXCEPT ![w] = "except"]
          /\ UNCHANGED html
    /\ UNCHANGED <<fnVars, ctorVars, queue, unfinished, prodVars, url, data, idx, tbl,
                   gets, dones, putLog, caught>>

\* lines 150-152: html = self.downloader.download(url); if html:
\* The downloader is HttpGetDownloadImpl on whatever the network answers,
\* or an IDownload whose download raises.
WorkerDownload(w) ==
    /\ pc[w] = "download"
    /\ dls' = [dls EXCEPT ![url[w].id] = @ + 1]
    /\ \/ \E r \in NetResponses(site) :
            /\ html' = [html EXCEPT ![w] = download(r)]
            /\ pc' = [pc EXCEPT ![w] = IF download(r) # <<>> THEN "parse"
                                       ELSE "finally"]
       \/ /\ pc' = [pc EXCEPT ![w] = "except"]
          /\ UNCHANGED html
    /\ UNCHANGED <<fnVars, ctorVars, queue, unfinished, prodVars, url, data, idx, tbl,
                   gets, dones, putLog, caught>>

\* WorkerParse with task_done called as soon as the outcome is known
WorkerParseDoneEarly(w) ==
    /\ pc[w] = "parse"
    /\ data' = [data EXCEPT ![w] = parse(html[w])]
    /\ unfinished' = unfinished - 1
    /\ dones' = [dones EXCEPT ![url[w].id] = @ + 1]
    /\ IF parse(html[w]).status = "success"
       THEN /\ idx' = [idx EXCEPT ![w] = 1]
            /\ pc' = [pc EXCEPT ![w] = "store"]
       ELSE /\ pc' = [pc EXCEPT ![w] = "finally"]
            /\ UNCHANGED idx
    /\ UNCHANGED <<fnVars, ctorVars, queue, prodVars, url, html, tbl,
                   gets, dls, putLog, caught>>

\* WorkerParse starting the loop at the second record
WorkerParseSkipFirst(w) ==
    /\ pc[w] = "parse"
    /\ data' = [data EXCEPT ![w] = parse(html[w])]
    /\ IF parse(html[w]).status = "success"
       THEN /\ idx' = [idx EXCEPT ![w] = 2]
            /\ pc' = [pc EXCEPT ![w] = IF Len(parse(html[w]).data) >= 2
                                       THEN "store" ELSE "finally"]
       ELSE /\ pc' = [pc EXCEPT ![w] = "finally"]
            /\ UNCHANGED idx
    /\ UNCHANGED <<fnVars, ctorVars, queue, unfinished, prodVars, url, html, tbl,
                   histVars>>

\* lines 153-156 and 165-168: data = self.parser.parse(html) and the
\* branch on data['status']
WorkerParse(w) ==
    /\ pc[w] = "parse"
    /\ data' = [data EXCEPT ![w] = parse(html[w])]
    /\ IF parse(html[w]).status = "success"
       THEN /\ idx' = [idx EXCEPT ![w] = 1]
            /\ pc' = [pc EXCEPT ![w] = "store"]
       ELSE /\ pc' = [pc EXCEPT ![w] = "finally"]
            /\ UNCHANGED idx
    /\ UNCHANGED <<fnVars, ctorVars, queue, unfinished, prodVars, url, html, tbl,
                   histVars>>

\* line 157: the product of the current iteration
product(w) == data[w].data[idx[w]]

\* row_key computed from the target's URL as well
row_key_url(w) == Md5(<<url[w].url>> \o product(w).title \o product(w).price)

\* line 159: row_key = md5(title + price).hexdigest()
row_key(w) == Md5(product(w).title \o product(w).price)

\* table.put(row, columns): an upsert
Put(t, row, columns) ==
    [k \in DOMAIN t \cup {row} |-> IF k = row THEN columns ELSE t[k]]

\* WorkerStore going on with the next record when table.put raises
WorkerStoreContinue(w) ==
    /\ pc[w] = "store"
    /\ LET p == product(w)
       IN \/ /\ tbl' = Put(tbl, row_key(w),
                           [title |-> p.title, price |-> p.price])
             /\ putLog' = putLog \cup
                    { [id |-> url[w].id, n |-> idx[w], key |-> row_key(w),
                       title |-> p.title, price |-> p.price] }
          \/ UNCHANGED <<tbl, putLog>>
    /\ idx' = [idx EXCEPT ![w] = @ + 1]
    /\ pc' = [pc EXCEPT ![w] = IF idx[w] = Len(data[w].data)
                               THEN "finally" ELSE "store"]
    /\ UNCHANGED <<fnVars, ctorVars, queue, unfinished, prodVars, url, html, data,
                   gets, dls, dones, caught>>

\* lines 157-164: one iteration of the loop over data['data']; table.put
\* writes the row or raises
WorkerStore(w) ==
    /\ pc[w] = "store"
    /\ LET p == product(w)
       IN \/ /\ tbl' = Put(tbl, row_key(w),
                           [title |-> p.title, price |-> p.price])
             /\ putLog' = putLog \cup
                    { [id |-> url[w].id, n |-> idx[w], key |-> row_key(w),
                       title |-> p.title, price |-> p.price] }
             /\ idx' = [idx EXCEPT ![w] = @ + 1]
             /\ pc' = [pc EXCEPT ![w] = IF idx[w] = Len(data[w].data)
                                        THEN "finally" ELSE "store"]
          \/ /\ pc' = [pc EXCEPT ![w] = "except"]
             /\ UNCHANGED <<tbl, putLog, idx>>
    /\ UNCHANGED <<fnVars, ctorVars, queue, unfinished, prodVars, url, html, data,
                   gets, dls, dones, caught>>

\* WorkerExcept putting the failed target back into the queue
WorkerExceptRequeue(w) ==
    /\ pc[w] = "except"
    /\ caught' = caught \cup {url[w].id}
    /\ queue' = Append(queue, url[w])
    /\ unfinished' = unfinished + 1
    /\ pc' = [pc EXCEPT ![w] = "finally"]
    /\ UNCHANGED <<fnVars, ctorVars, prodVars, url, html, data, idx, tbl,
                   gets, dls, dones, putLog>>

\* WorkerExcept without the except clause: the finally clause runs and the
\* exception leaves the loop
WorkerExceptReraise(w) ==
    /\ pc[w] = "except"
    /\ caught' = caught \cup {url[w].id}
    /\ unfinished' = unfinished - 1
    /\ dones' = [dones EXCEPT ![url[w].id] = @ + 1]
    /\ pc' = [pc EXCEPT ![w] = "dead"]
    /\ UNCHANGED <<fnVars, ctorVars, queue, prodVars, url, html, data, idx, tbl,
                   gets, dls, putLog>>

\* lines 169-170: except Exception: the error is logged
WorkerExcept(w) ==
    /\ pc[w] = "except"
    /\ caught' = caught \cup {url[w].id}
    /\ pc' = [pc EXCEPT ![w] = "finally"]
    /\ UNCHANGED <<fnVars, ctorVars, queue, unfinished, prodVars, url, html, data,
                   idx, tbl, gets, dls, dones, putLog>>

\* WorkerFinally with task_done on the success path only
WorkerFinallyNoDone(w) ==
    /\ pc[w] = "finally"
    /\ IF url[w].id \in caught
       THEN UNCHANGED <<unfinished, dones>>
       ELSE /\ unfinished' = unfinished - 1
            /\ dones' = [dones EXCEPT ![url[w].id] = @ + 1]
    /\ pc' = [pc EXCEPT ![w] = "get"]
    /\ url' = [url EXCEPT ![w] = NoEntry]
    /\ html' = [html EXCEPT ![w] = <<>>]
    /\ data' = [data EXCEPT ![w] = NoData]
    /\ idx' = [idx EXCEPT ![w] = 0]
    /\ UNCHANGED <<fnVars, ctorVars, queue, prodVars, tbl, gets, dls, putLog, caught>>

\* lines 171-172 and 147: finally: self.request_queue.task_done(), then the
\* next iteration of while True.  Queue.task_done raises ValueError when
\* unfinished_tasks would become negative; raised in the finally clause,
\* it ends the thread.
WorkerFinally(w) ==
    /\ pc[w] = "finally"
    /\ IF unfinished = 0
       THEN /\ pc' = [pc EXCEPT ![w] = "dead"]
            /\ UNCHANGED <<unfinished, dones>>
       ELSE /\ unfinished' = unfinished - 1
            /\ dones' = [dones EXCEPT ![url[w].id] = @ + 1]
            /\ pc' = [pc EXCEPT ![w] = "get"]
    /\ url' = [url EXCEPT ![w] = NoEntry]
    /\ html' = [html EXCEPT ![w] = <<>>]
    /\ data' = [data EXCEPT ![w] = NoData]
    /\ idx' = [idx EXCEPT ![w] = 0]
    /\ UNCHANGED <<fnVars, ctorVars, queue, prodVars, tbl, gets, dls, putLog, caught>>

Next ==
    \/ Construct
    \/ StartWorkersStep
    \/ \E w \in W : StartWorker(w)
    \/ \E u \in URLs : u = Seed(nput + 1) /\ PutStart(u)
    \/ PutReturn
    \/ JoinStart
    \/ JoinReturn
    \/ \E w \in W : WorkerGet(w)
    \/ \E w \in W : WorkerDownload(w)
    \/ \E w \in W : WorkerParse(w)
    \/ \E w \in W : WorkerStore(w)
    \/ \E w \in W : WorkerExcept(w)
    \/ \E w \in W : WorkerFinally(w)

Spec == Init /\ [][Next]_vars

StoreSpec == StoreInit /\ [][Next]_vars

\* ------------------------------------------------- parse, called alone
ParseInit ==
    /\ PipeInit /\ DownloadIdle /\ ProxyIdle
    /\ p_html \in DocsUpTo(MaxDocLen)
    /\ p_out = NoData

\* data = parser.parse(html)
ParseCall ==
    /\ p_out = NoData
    /\ p_out' = parse(p_html)
    /\ UNCHANGED <<pipeVars, p_html, dlVars, proxyVars>>

ParseSpec == ParseInit /\ [][ParseCall]_vars

\* ---------------------------------------------- download, called alone
DownloadInit == PipeInit /\ ParseIdle /\ ProxyIdle /\ DownloadIdle

Responses ==
    Failures \cup
    { [status |-> st, text |-> t] : st \in Statuses, t \in DocsUpTo(MaxTextLen) }

\* line 87: download(url) is entered
DownloadCall ==
    /\ d_pc \in {"idle", "returned"}
    /\ d_pc' = "called"
    /\ d_resp' = NoResponse
    /\ d_out' = <<>>
    /\ d_nget' = 0
    /\ UNCHANGED <<pipeVars, parseVars, proxyVars>>

\* DownloadGet calling session.get a second time after a failure
DownloadGetRetry(r) ==
    /\ d_pc = "called"
    /\ d_nget' = d_nget + 1
    /\ d_resp' = r
    /\ d_out' = download(r)
    /\ d_pc' = IF download(r) = <<>> /\ d_nget = 0 THEN "called" ELSE "returned"
    /\ UNCHANGED <<pipeVars, parseVars, proxyVars>>

\* lines 88-94: the one session.get of the body, raise_for_status and the
\* return in the try or in the except clause
DownloadGet(r) ==
    /\ d_pc = "called"
    /\ d_nget' = d_nget + 1
    /\ d_resp' = r
    /\ d_out' = download(r)
    /\ d_pc' = "returned"
    /\ UNCHANGED <<pipeVars, parseVars, proxyVars>>

DownloadNext == DownloadCall \/ \E r \in Responses : DownloadGet(r)

DownloadSpec == DownloadInit /\ [][DownloadNext]_vars

\* --------------------------------------- get_random_proxy, called alone
Endpoints == { ConfiguredProxies[i] : i \in 1..Len(ConfiguredProxies) }

ProxyInit ==
    /\ PipeInit /\ ParseIdle /\ DownloadIdle
    /\ proxies \in UNION { [1..k -> Endpoints] : k \in 0..MaxProxies }
    /\ chosen = NoProxy
    /\ ncalls = 0

\* get_random_proxy removing the endpoint it hands out
get_random_proxy_pop ==
    /\ ncalls < MaxCalls
    /\ ncalls' = ncalls + 1
    /\ IF proxies # <<>>
       THEN /\ chosen' = Head(proxies)
            /\ proxies' = Tail(proxies)
       ELSE /\ chosen' = NoProxy
            /\ proxies' = proxies
    /\ UNCHANGED <<pipeVars, parseVars, dlVars>>

\* lines 69-73: random.choice(self.proxies) if the list is not empty,
\* else None
get_random_proxy ==
    /\ ncalls < MaxCalls
    /\ ncalls' = ncalls + 1
    /\ IF proxies # <<>>
       THEN \E i \in 1..Len(proxies) : chosen' = proxies[i]
       ELSE chosen' = NoProxy
    /\ proxies' = proxies
    /\ UNCHANGED <<pipeVars, parseVars, dlVars>>

ProxySpec == ProxyInit /\ [][get_random_proxy]_vars

\* Every step of a started thread, and every return of a blocking call,
\* is taken if it stays possible; what the caller does is up to the caller.
Fairness ==
    /\ WF_vars(Construct)
    /\ WF_vars(StartWorkersStep)
    /\ WF_vars(PutReturn)
    /\ WF_vars(JoinReturn)
    /\ \A w \in W : /\ SF_vars(WorkerGet(w))
                    /\ WF_vars(WorkerDownload(w))
                    /\ WF_vars(WorkerParse(w))
                    /\ WF_vars(WorkerStore(w))
                    /\ WF_vars(WorkerExcept(w))
                    /\ WF_vars(WorkerFinally(w))

FairSpec == Spec /\ Fairness

\* ------------------------------------------------------------- properties
RECURSIVE SumTo(_, _)
SumTo(f, n) == IF n = 0 THEN 0 ELSE f[n] + SumTo(f, n - 1)

Holders(i) == { w \in W : url[w].id = i }

\* C1: queue drain correctness.  Whenever join has returned, every target
\* enqueued so far has been marked done exactly once; task_done is never
\* called more often for a target than it was dequeued, and a target that
\* was dequeued and is no longer held by a worker was marked done.
C1_DrainCorrect ==
    /\ prod = "joined" =>
          /\ \A i \in 1..nput : dones[i] = 1
          /\ SumTo(dones, MaxTargets) = nput
    /\ \A i \in Ids : dones[i] <= gets[i]
    /\ \A i \in Ids : (gets[i] >= 1 /\ Holders(i) = {}) => dones[i] = gets[i]

\* join has returned after two or more targets, one of which raised and
\* one of which was stored
C1_Witness ==
    /\ prod = "joined"
    /\ nput >= 2
    /\ caught # {}
    /\ putLog # {}

\* C2: when the constructor is over, num_threads worker threads have been
\* started.
C2_FiveWorkers ==
    ctor \in {"raised", "returned"} => started = num_threads

\* C3: every enqueued target is eventually marked done, and a caller
\* waiting in join is eventually released.
C3_Drains ==
    /\ \A i \in 1..MaxTargets : (nput >= i) ~> (dones[i] = 1)
    /\ (prod = "joining") ~> (prod = "joined")

\* C4: backpressure.  The queue never holds more than maxsize entries, and
\* the completed puts never exceed the dequeues by more than maxsize.
C4_Backpressure ==
    /\ Len(queue) <= maxsize
    /\ nput - SumTo(gets, MaxTargets) <= maxsize

\* a put waits on a full queue
C4_Witness ==
    /\ prod = "putting"
    /\ Len(queue) = maxsize

\* C5: idempotent storage.  Equal (title, price) pairs always get the same
\* row key; after a put of a record the table holds exactly one row with
\* that record's title and price, and a put of a pair that was stored
\* before adds no row.
C5_Idempotent ==
    [][ \A w \in W :
          (pc[w] = "store" /\ idx'[w] = idx[w] + 1) =>
             LET cols == [title |-> product(w).title, price |-> product(w).price]
             IN /\ Cardinality({ k \in DOMAIN tbl' : tbl'[k] = cols }) = 1
                /\ (\E e \in putLog : e.title = cols.title /\ e.price = cols.price)
                      => DOMAIN tbl' = DOMAIN tbl
                /\ \A e1, e2 \in putLog' :
                      (e1.title = e2.title /\ e1.price = e2.price)
                         => e1.key = e2.key ]_vars

\* two different workers, each still holding its target, stored the same
\* (title, price), and the table holds one row for it
C5_Witness ==
    \E e1, e2 \in putLog :
        /\ e1.id # e2.id
        /\ e1.title = e2.title /\ e1.price = e2.price
        /\ Holders(e1.id) # {} /\ Holders(e2.id) # {}
        /\ Cardinality({ k \in DOMAIN tbl :
               tbl[k] = [title |-> e1.title, price |-> e1.price] }) = 1

\* C6: failure containment.  A started worker never leaves its loop: after
\* an exception it runs the finally clause and then dequeues again.
C6_Contained ==
    [][ \A w \in W :
          /\ pc[w] # "off" => pc'[w] \notin {"off", "dead"}
          /\ pc[w] = "except" => pc'[w] \in {"except", "finally"}
          /\ pc[w] = "finally" => pc'[w] \in {"finally", "get"} ]_vars

\* the only worker there is caught an exception on one target and is
\* downloading the next
C6_Witness ==
    \E w \in W :
        /\ \A v \in W : v # w => pc[v] = "off"
        /\ pc[w] = "download"
        /\ caught # {}
        /\ \A i \in caught : i < url[w].id

\* C7: download makes one session.get call per invocation and returns the
\* empty string when session.get raised or the status is 4xx or 5xx, and
\* the response text otherwise.
C7_Download ==
    d_pc = "returned" =>
        /\ d_nget = 1
        /\ IF IsFailure(d_resp) THEN d_out = <<>>
           ELSE IF d_resp.status >= 400 /\ d_resp.status <= 599 THEN d_out = <<>>
                ELSE d_out = d_resp.text

\* C7 as claimed: the empty string for every status outside 200..299.
C7_NonSuccessIsEmpty ==
    d_pc = "returned" =>
        /\ d_nget = 1
        /\ IF IsFailure(d_resp) THEN d_out = <<>>
           ELSE IF d_resp.status < 200 \/ d_resp.status > 299 THEN d_out = <<>>
                ELSE d_out = d_resp.text

\* a download returned the empty string for a 5xx answer that had a body
C7_Witness ==
    /\ d_pc = "returned"
    /\ ~IsFailure(d_resp)
    /\ d_resp.status = 500
    /\ d_resp.text # <<>>
    /\ d_out = <<>>

Complete(n) == n.kind = "item" /\ n.title # None /\ n.price # None
CompleteAt(doc) == { i \in 1..Len(doc) : Complete(doc[i]) }
Rank(S, i) == Cardinality({ j \in S : j <= i })

\* C8: the outcome of parse on a document the HTML library accepts.  Blank:
\* error "empty HTML content".  No node with both fields: empty.  Otherwise
\* success with one record per node that has both fields, in document
\* order, the texts stripped.
C8_Extractor ==
    p_out # NoData =>
        IF \A i \in 1..Len(p_html) : p_html[i] = Ws
        THEN p_out = [status |-> "error", reason |-> "empty HTML content"]
        ELSE (\A i \in 1..Len(p_html) : p_html[i] # Junk) =>
               IF CompleteAt(p_html) = {}
               THEN p_out = [status |-> "empty"]
               ELSE /\ p_out.status = "success"
                    /\ Len(p_out.data) = Cardinality(CompleteAt(p_html))
                    /\ \A i \in CompleteAt(p_html) :
                          p_out.data[Rank(CompleteAt(p_html), i)] =
                             [title |-> Strip(p_html[i].title),
                              price |-> Strip(p_html[i].price)]

\* three items, the second without a price: success with the first and
\* the third, in that order
C8_Witness ==
    /\ Len(p_html) = 3
    /\ Complete(p_html[1]) /\ Complete(p_html[3])
    /\ p_html[2].kind = "item" /\ p_html[2].price = None
    /\ p_html[1] # p_html[3]
    /\ p_out.status = "success"
    /\ Len(p_out.data) = 2
    /\ p_out.data[1].title = Strip(p_html[1].title)
    /\ p_out.data[2].title = Strip(p_html[3].title)
    /\ p_out.data[1] # p_out.data[2]

\* C9: exactly-once consumption.  No entry is dequeued or downloaded twice,
\* no two workers hold the same entry, and an entry that was dequeued is
\* not in the queue again.
C9_ExactlyOnce ==
    /\ \A i \in Ids :
          /\ gets[i] <= 1
          /\ dls[i] <= 1
          /\ Cardinality(Holders(i)) <= 1
          /\ \A k \in 1..Len(queue) : queue[k].id = i => gets[i] = 0
    /\ \A k1, k2 \in 1..Len(queue) : queue[k1].id = queue[k2].id => k1 = k2

\* two workers hold two entries with the same URL; the first has caught an
\* exception and is about to mark its entry done, and the queue is empty
C9_Witness ==
    \E w1, w2 \in W :
        /\ w1 # w2
        /\ url[w1].id # 0 /\ url[w2].id # 0
        /\ url[w1].url = url[w2].url
        /\ pc[w1] = "finally" /\ url[w1].id \in caught
        /\ pc[w2] = "store"
        /\ queue = <<>>


\* C11 as claimed: after a download that gave an empty or a whitespace-only
\* document the worker does not go on to parse.
C11_BlankNotParsed ==
    [][ \A w \in W :
          (pc[w] = "download" /\ pc'[w] # "download" /\ IsBlank(html'[w]))
             => pc'[w] # "parse" ]_vars

\* C11, amended: after a download that gave the empty string the worker
\* goes to the finally clause without calling parse; every other document,
\* a whitespace-only one included, is handed to parse, and for a
\* whitespace-only one parse returns an error and nothing is stored.
C11_EmptyNotParsed ==
    [][ \A w \in W :
          /\ (pc[w] = "download" /\ pc'[w] \notin {"download", "except"}) =>
                /\ html'[w] = <<>> => pc'[w] = "finally"
                /\ html'[w] # <<>> => pc'[w] = "parse"
          /\ pc'[w] = "parse" => pc[w] \in {"download", "parse"}
          /\ (pc[w] = "parse" /\ pc'[w] # "parse" /\ IsBlank(html[w])) =>
                /\ data'[w].status = "error"
                /\ pc'[w] = "finally"
                /\ tbl' = tbl ]_vars

\* a worker is in its finally clause after a download that gave the empty
\* string: no parser outcome, no exception
C11_Witness ==
    \E w \in W :
        /\ pc[w] = "finally"
        /\ dls[url[w].id] = 1
        /\ html[w] = <<>>
        /\ data[w] = NoData
        /\ url[w].id \notin caught

PutsOf(i) == { e \in putLog : e.id = i }

\* the put of the n-th record of the outcome worker w holds
PutOf(w, n) ==
    LET r == data[w].data[n]
    IN [id |-> url[w].id, n |-> n, key |-> Md5(r.title \o r.price),
        title |-> r.title, price |-> r.price]

\* C12: storage happens only on success.  A target that a worker holds has
\* no put unless its outcome is success; with success its puts are those of
\* the records before the current one, one each, and all of them once the
\* loop ended without an exception.  Every row of the table was put.
C12_StoreOnSuccess ==
    /\ \A w \in W :
          url[w].id # 0 =>
             IF data[w].status = "success"
             THEN /\ PutsOf(url[w].id) = { PutOf(w, n) : n \in 1..(idx[w] - 1) }
                  /\ (pc[w] = "finally" /\ url[w].id \notin caught)
                        => idx[w] = Len(data[w].data) + 1
             ELSE PutsOf(url[w].id) = {}
    /\ \A k \in DOMAIN tbl :
          \E e \in putLog :
              e.key = k /\ tbl[k] = [title |-> e.title, price |-> e.price]

\* a worker ended the loop over a success outcome of two records, and
\* another target, whose document was empty, is done without a put
C12_Witness ==
    \E w \in W :
        /\ pc[w] = "finally"
        /\ data[w].status = "success"
        /\ Len(data[w].data) = 2
        /\ Cardinality(PutsOf(url[w].id)) = 2
        /\ \E i \in Ids : dones[i] = 1 /\ i \notin caught /\ PutsOf(i) = {}

\* the steps of _worker in the order of its body
WorkerOrder ==
    { <<"off", "get">>, <<"get", "download">>, <<"download", "parse">>,
      <<"download", "finally">>, <<"download", "except">>,
      <<"parse", "store">>, <<"parse", "finally">>, <<"store", "store">>,
      <<"store", "finally">>, <<"store", "except">>, <<"except", "finally">>,
      <<"finally", "get">> }

\* C13: per-target ordering.  A worker passes dequeue, download, parse,
\* store and task_done in this order; a put is made only by the worker that
\* holds the target, after its download and before its task_done; once join
\* has returned no worker holds a target.
C13_Ordered ==
    [][ /\ \A w \in W : pc'[w] # pc[w] => <<pc[w], pc'[w]>> \in WorkerOrder
        /\ \A e \in putLog' \ putLog :
              /\ dls[e.id] = 1
              /\ dones'[e.id] = 0
              /\ \E w \in W : pc[w] = "store" /\ url[w].id = e.id
        /\ \A i \in Ids : dones'[i] >= 1 => Holders(i)' = {}
        /\ prod' = "joined" =>
              \A w \in W : pc'[w] \in {"off", "get"} /\ url'[w] = NoEntry ]_vars

\* join has returned after a target whose two records were stored
C13_Witness ==
    /\ prod = "joined"
    /\ \E e \in putLog : e.n = 2 /\ dones[e.id] = 1

\* the put of worker w has raised and the exception is not yet handled,
\* or it was caught and the finally clause is next
StoreFailed(w) ==
    /\ data[w].status = "success"
    /\ \/ pc[w] = "except"
       \/ pc[w] = "finally" /\ url[w].id \in caught

\* C14: storage failure handling.  A put that raises changes neither the
\* table nor the queue; the worker goes through its except clause to the
\* finally clause, marks the target done, which makes it done once, and is
\* at its next dequeue; the target is not in the queue again.
C14_StoreFailure ==
    [][ \A w \in W :
          /\ (pc[w] = "store" /\ pc'[w] = "except") =>
                tbl' = tbl /\ queue' = queue /\ dones' = dones
          /\ (StoreFailed(w) /\ pc[w] = "except" /\ pc'[w] # pc[w]) =>
                pc'[w] = "finally" /\ queue' = queue /\ dones' = dones
          /\ (StoreFailed(w) /\ pc[w] = "finally" /\ pc'[w] # pc[w]) =>
                /\ pc'[w] = "get"
                /\ dones'[url[w].id] = 1
                /\ gets'[url[w].id] = 1 /\ dls'[url[w].id] = 1
                /\ \A k \in 1..Len(queue') : queue'[k].id # url[w].id ]_vars

\* the second put of a target raised; the target is done and the one worker
\* there is downloads the next target
C14_Witness ==
    \E w \in W, i \in caught :
        /\ \A v \in W : v # w => pc[v] = "off"
        /\ dones[i] = 1
        /\ Cardinality(PutsOf(i)) = 1
        /\ pc[w] = "download"
        /\ url[w].id > i

StoredPairs == { <<e.title, e.price>> : e \in putLog }

\* C15: distinct records get distinct rows.  The table holds one row for
\* each (title, price) pair that was stored.
C15_RowPerPair ==
    Cardinality(DOMAIN tbl) = Cardinality(StoredPairs)

\* C16: fault isolation between workers.  Whatever the other workers are
\* doing, a worker at its dequeue can take a target whenever the queue is
\* not empty, and a worker that holds a target can take its next step; from
\* its except clause and its finally clause the step leads to the next
\* dequeue.
C16_Isolated ==
    \A w \in W :
        /\ (pc[w] = "get" /\ queue # <<>>) => ENABLED WorkerGet(w)
        /\ pc[w] = "download" => ENABLED WorkerDownload(w)
        /\ pc[w] = "parse" => ENABLED WorkerParse(w)
        /\ pc[w] = "store" => ENABLED WorkerStore(w)
        /\ pc[w] = "except" => ENABLED WorkerExcept(w)
        /\ pc[w] = "finally" => ENABLED (WorkerFinally(w) /\ pc'[w] = "get")

\* a target has failed, and while one worker is still in the download of
\* target A, a later target B was dequeued, stored and marked done and the
\* worker that did it is at its next dequeue
C16_Witness ==
    \E w1, w2 \in W, a, b \in Ids :
        /\ w1 # w2 /\ a < b
        /\ pc[w1] = "download" /\ url[w1].id = a
        /\ pc[w2] = "get"
        /\ caught # {}
        /\ dones[b] = 1 /\ PutsOf(b) # {}

\* C17: FIFO dequeue order.  Entries are numbered in the order in which
\* their puts returned: the queue holds them in this order, and an entry is
\* dequeued only when every earlier one has been.
C17_Fifo ==
    /\ \A k1, k2 \in 1..Len(queue) : k1 < k2 => queue[k1].id < queue[k2].id
    /\ \A i, j \in Ids : (i < j /\ gets[j] >= 1) => gets[i] >= 1
    /\ \A i \in Ids, k \in 1..Len(queue) : queue[k].id <= i => gets[i] = 0

\* two entries were dequeued in their order while a third waits in the
\* queue, and the later of the two is done while the earlier one is not
C17_Witness ==
    \E i, j \in Ids :
        /\ i < j
        /\ gets[i] = 1 /\ gets[j] = 1
        /\ dones[j] = 1 /\ dones[i] = 0
        /\ Len(queue) = 1 /\ queue[1].id > j

\* C18: the value parse returns is a well-formed outcome.  Its status is
\* success, empty or error and its fields are those of the status; a
\* success carries at least one record and every record has a title and a
\* price; an error carries a reason; and parse returns an outcome, an
\* error, also when the HTML library raises.
C18_Outcome ==
    p_out # NoData =>
        /\ p_out.status \in {"success", "empty", "error"}
        /\ p_out.status = "success" =>
              /\ DOMAIN p_out = {"status", "data"}
              /\ Len(p_out.data) >= 1
              /\ \A n \in 1..Len(p_out.data) :
                    /\ DOMAIN p_out.data[n] = {"title", "price"}
                    /\ p_out.data[n].title # None
                    /\ p_out.data[n].price # None
        /\ p_out.status = "empty" => DOMAIN p_out = {"status"}
        /\ p_out.status = "error" =>
              DOMAIN p_out = {"status", "reason"}
        /\ (\E i \in 1..Len(p_html) : p_html[i] = Junk) => p_out.status = "error"

\* a document with a complete item on which the HTML library raises gave
\* an error outcome
C18_Witness ==
    /\ \E i \in 1..Len(p_html) : p_html[i] = Junk
    /\ \E i \in 1..Len(p_html) : Complete(p_html[i])
    /\ p_out.status = "error"
    /\ p_out.reason = "exception"

\* C19: writes for one target are not atomic.  The puts of a target are
\* those of its first records, without a gap; a put that raises leaves the
\* table as it is, rows of the earlier records included; no put is made
\* for a target once its exception was caught; and no row ever leaves the
\* table.
C19_Partial ==
    [][ /\ \A i \in Ids :
              { e.n : e \in PutsOf(i)' } = 1..Cardinality(PutsOf(i)')
        /\ \A i \in caught : PutsOf(i)' = PutsOf(i)
        /\ \A w \in W :
              (pc[w] \in {"store", "except"} /\ pc'[w] \in {"except", "finally"}
                 /\ data[w].status = "success"
                 /\ Cardinality(PutsOf(url[w].id)') < Len(data[w].data)) =>
                 /\ pc[w] = "store" => pc'[w] = "except" /\ tbl' = tbl
                 /\ \A e \in PutsOf(url[w].id) : e.key \in DOMAIN tbl'
        /\ DOMAIN tbl \subseteq DOMAIN tbl' ]_vars

\* the put of the second record of a target raised: the target is done,
\* the row of its first record is in the table, the second was never put
C19_Witness ==
    \E i \in caught :
        /\ dones[i] = 1
        /\ \E e \in PutsOf(i) : e.n = 1 /\ e.key \in DOMAIN tbl
        /\ Cardinality(PutsOf(i)) = 1

Range(f) == { f[i] : i \in DOMAIN f }

\* C10: a call of get_random_proxy returns a member of the list when the
\* list is not empty and None exactly when it is empty, and no step changes
\* the list.
C10_Proxy ==
    [][ /\ proxies' = proxies
        /\ ncalls' # ncalls =>
              /\ proxies # <<>> => chosen' \in Range(proxies)
              /\ chosen' = NoProxy <=> proxies = <<>> ]_vars

\* the list of the source after several calls, the last of which returned
\* its third endpoint
C10_Witness ==
    /\ ncalls >= 2
    /\ proxies = ConfiguredProxies
    /\ chosen = ConfiguredProxies[3]

\* the empty list, for which a call returned None
C10_WitnessEmpty ==
    /\ ncalls >= 1
    /\ proxies = <<>>
    /\ chosen = NoProxy

====
